---- MODULE Spec2Model ----
(***************************************************************************)
(* A model of the queue worker: the RabbitMQQueue client                   *)
(* (src/src/queue/rabbit_mq/rabbit_mq_queue.py) with its connection and    *)
(* channel recovery, the broker it talks to, and the process_queue loop    *)
(* (src/main.py) that pops, validates, classifies, generates, pushes and   *)
(* acknowledges.                                                           *)
(*                                                                         *)
(* Every public method of the client is one action.  Inside a method the   *)
(* broker calls are counted; one environment event (the link drops, the    *)
(* broker closes the channel, the broker goes down, its host name stops    *)
(* resolving, or it comes back) may                                        *)
(* happen right before any chosen broker call of the method, and more      *)
(* events happen between methods.                                          *)
(***************************************************************************)
EXTENDS Integers, Sequences, FiniteSets, TLC

VARIABLES
    cl,        \* who -> the RabbitMQQueue object's fields and its link's physical state
    up,        \* the broker accepts connections
    dns,       \* the broker's host name resolves
    inQ,       \* ready messages of queue "message_receiver", head first
    outQ,      \* ready messages of queue "message_uploader", head first
    unacked,   \* deliveries fetched with auto_ack=False and not settled, oldest first
    faults,    \* environment events so far
    last,      \* the last client method called directly: its name, result and trace
    pc,        \* process_queue's position
    cur,       \* process_queue's locals for the message in hand
               \* (under ClassSpec: one call of get_relevant_class)
    log        \* what process_queue did for the message in hand

vars == <<cl, up, dns, inQ, outQ, unacked, faults, last, pc, cur, log>>

----------------------------------------------------------------------------
(* Bounds of the model *)

MaxMsgs == 2      \* inbound messages
MaxFaults == 2    \* environment events in one behaviour
MaxIds == 5       \* connection and channel objects one client creates
MaxStep == 6      \* the latest broker call of a method before which an event may happen

\* results in the outbound queue
MaxOut == MaxMsgs

\* delivery tags a direct caller presents to ack and nack
Tags == 1..MaxMsgs

(* Program constants *)

PrefetchCount == 1   \* prefetch_count's default

Who == {"r", "u"}    \* receiver_queuer and uploader_queuer of main()

BoundQueue(who) == IF who = "r" THEN "message_receiver" ELSE "message_uploader"

----------------------------------------------------------------------------
(* Message bodies as they sit in the queue (UTF-8 JSON text) *)

Absent == "<absent>"

\* the JSON number 0 as a field's value
Zero == "<0>"

Body(fmt, uid, text) == [fmt |-> fmt, user_id |-> uid, message |-> text]

Bodies ==
    { Body("object", "u1", "a cat sleeping"),
      Body("object", "u2", "quantum mechanics"),
      Body("object", "u1", Absent),
      Body("object", "", "hi"),
      Body("object", Zero, "hi"),
      Body("array", Absent, Absent),
      Body("garbage", Absent, Absent) }

\* json.loads(body.decode("utf-8")) succeeds
Decodable(b) == b.fmt # "garbage"

NoMsg == [id |-> 0, body |-> Body("none", Absent, Absent), tag |-> 0]

Null == "null"

ResultPayload(uid, b64, shape, err, text) ==
    [user_id |-> uid, image_b64 |-> b64, shape |-> shape, error |-> err,
     message |-> text]

\* Payloads a direct caller hands to push: one json.dumps can encode, and one
\* it cannot (the image left as raw bytes)
Payloads ==
    { ResultPayload("u1", "b64", "[3,64,64]", FALSE, "ok"),
      ResultPayload("u1", "<bytes>", "[3,64,64]", FALSE, "ok") }

\* json.dumps(data, ensure_ascii=False) succeeds
Serializable(data) == data.image_b64 # "<bytes>"

----------------------------------------------------------------------------
(* The state a method works on *)

NoPlan == [at |-> 0, ev |-> "none"]

Events == {"conn_drop", "chan_close", "down", "unresolvable", "up"}

Plans == {NoPlan} \cup [at : 1..MaxStep, ev : Events]

Start(plan) ==
    [cl |-> cl, up |-> up, dns |-> dns, inQ |-> inQ, outQ |-> outQ, unacked |-> unacked,
     n |-> 0, plan |-> plan, exc |-> "none", ret |-> "unset", msg |-> NoMsg,
     tr |-> <<>>]

Raise(s, kind) == [s EXCEPT !.exc = kind]

Catch(s) == [s EXCEPT !.exc = "none"]

Return(s, v) == [s EXCEPT !.ret = v]

\* run F unless an exception is already propagating
Then(s, F(_)) == IF s.exc = "none" THEN F(s) ELSE s

\* name a value once
Bind(x, F(_)) == F(x)

TraceEvent(s, who, e) ==
    [e |-> e, conn |-> s.cl[who].conn, chan |-> s.cl[who].chan,
     connClosed |-> s.cl[who].connClosed, chanClosed |-> s.cl[who].chanClosed,
     needs |-> s.cl[who].needs, nid |-> s.cl[who].nid, exc |-> s.exc,
     qos |-> s.cl[who].qos, decl |-> s.cl[who].decl]

Mark(s, who, e) == [s EXCEPT !.tr = Append(@, TraceEvent(s, who, e))]

----------------------------------------------------------------------------
(* The broker and the link *)

\* the broker puts the unsettled deliveries of a lost channel back at the head
Requeue(s, who) ==
    LET mine == SelectSeq(s.unacked, LAMBDA d : d.who = who)
        back == [i \in 1..Len(mine) |-> mine[i].msg]
    IN  IF who = "r"
        THEN [s EXCEPT !.inQ = back \o @,
                       !.unacked = SelectSeq(@, LAMBDA d : d.who # who)]
        ELSE [s EXCEPT !.outQ = back \o @,
                       !.unacked = SelectSeq(@, LAMBDA d : d.who # who)]

DropLink(s, who) ==
    IF s.cl[who].connClosed \/ s.cl[who].connDead THEN s
    ELSE Requeue([s EXCEPT !.cl[who].connDead = TRUE], who)

BrokerClosesChannel(s, who) ==
    IF s.cl[who].chanClosed \/ s.cl[who].chanDead \/ s.cl[who].connDead THEN s
    ELSE Requeue([s EXCEPT !.cl[who].chanDead = TRUE], who)

ApplyEvent(s, who, ev) ==
    CASE ev = "conn_drop"  -> DropLink(s, who)
      [] ev = "chan_close" -> BrokerClosesChannel(s, who)
      [] ev = "down"       -> [DropLink(DropLink(s, "r"), "u") EXCEPT !.up = FALSE]
      [] ev = "unresolvable" ->
             [DropLink(DropLink(s, "r"), "u") EXCEPT !.up = FALSE, !.dns = FALSE]
      [] ev = "up"         -> [s EXCEPT !.up = TRUE, !.dns = TRUE]
      [] OTHER             -> s

\* every broker call of a method is counted; the planned event happens before its turn
Tick(s, who) ==
    IF s.plan.at = s.n + 1
    THEN ApplyEvent([s EXCEPT !.n = @ + 1], who, s.plan.ev)
    ELSE [s EXCEPT !.n = @ + 1]

\* pika marks the connection and its channels closed once it sees the stream lost
FlagConnClosed(s, who) ==
    [s EXCEPT !.cl[who].connClosed = TRUE, !.cl[who].chanClosed = TRUE]

FlagChanClosed(s, who) == [s EXCEPT !.cl[who].chanClosed = TRUE]

\* BlockingConnection(params): AMQPConnectionError when the broker refuses,
\* socket.gaierror (no AMQPError) when its host name does not resolve
NewConnection(s, who) ==
    Bind(Tick(s, who), LAMBDA t :
        IF ~t.dns THEN Raise(t, "os")
        ELSE IF ~t.up THEN Raise(t, "amqp")
        ELSE [t EXCEPT !.cl[who].conn = t.cl[who].nid,
                       !.cl[who].connClosed = FALSE,
                       !.cl[who].connDead = FALSE,
                       !.cl[who].nid = @ + 1])

\* self._connection.channel()
NewChannel(s, who) ==
    Bind(Tick(s, who), LAMBDA t :
        IF t.cl[who].connClosed THEN Raise(t, "amqp")
        ELSE IF t.cl[who].connDead THEN Raise(FlagConnClosed(t, who), "amqp")
        ELSE [t EXCEPT !.cl[who].chan = t.cl[who].nid,
                       !.cl[who].chanClosed = FALSE,
                       !.cl[who].chanDead = FALSE,
                       !.cl[who].qos = 0,
                       !.cl[who].decl = FALSE,
                       !.cl[who].tags = 0,
                       !.cl[who].nid = @ + 1])

\* what every call on self._channel does before its own effect
ChannelIO(s, who) ==
    Bind(Tick(s, who), LAMBDA t :
        IF t.cl[who].chanClosed THEN Raise(t, "amqp")
        ELSE IF t.cl[who].connDead THEN Raise(FlagConnClosed(t, who), "amqp")
        ELSE IF t.cl[who].chanDead THEN Raise(FlagChanClosed(t, who), "amqp")
        ELSE t)

BasicQos(s, who) ==
    Then(ChannelIO(s, who), LAMBDA t : [t EXCEPT !.cl[who].qos = PrefetchCount])

QueueDeclare(s, who) == ChannelIO(s, who)

\* self._channel.close(): the broker requeues what the channel left unsettled
ChannelClose(s, who) ==
    Then(ChannelIO(s, who), LAMBDA t : Requeue(FlagChanClosed(t, who), who))

\* self._connection.close(): the link is given up, the broker requeues what was
\* unsettled; on a link already lost pika reports the error and the closed state
ConnectionClose(s, who) ==
    Bind(Tick(s, who), LAMBDA t :
        IF t.cl[who].connClosed THEN Raise(t, "amqp")
        ELSE IF t.cl[who].connDead THEN Raise(FlagConnClosed(t, who), "amqp")
        ELSE Requeue(FlagConnClosed(t, who), who))

BasicPublish(s, who, queue, data) ==
    Then(ChannelIO(s, who), LAMBDA t :
        IF queue = "message_uploader" THEN [t EXCEPT !.outQ = Append(@, data)]
        ELSE t)

\* basic_get(queue=self._queue_name, auto_ack=False) on a live channel
Deliver(t, who) ==
    LET q == IF who = "r" THEN t.inQ ELSE <<>>
        tag == t.cl[who].tags + 1
    IN  IF q = <<>> THEN [t EXCEPT !.msg = NoMsg]
        ELSE [t EXCEPT !.inQ = Tail(q),
                       !.cl[who].tags = tag,
                       !.unacked = Append(@, [who |-> who, tag |-> tag,
                                              chan |-> t.cl[who].chan,
                                              msg |-> Head(q)]),
                       !.msg = [id |-> Head(q).id, body |-> Head(q).body,
                                tag |-> tag]]

BasicGet(s, who) == Then(ChannelIO(s, who), LAMBDA t : Deliver(t, who))

Outstanding(s, who, tag) ==
    \E i \in 1..Len(s.unacked) : s.unacked[i].who = who /\ s.unacked[i].tag = tag

Settle(s, who, tag) ==
    [s EXCEPT !.unacked = SelectSeq(@, LAMBDA d : ~(d.who = who /\ d.tag = tag))]

\* a tag the channel never delivered, or already settled, makes the broker close
\* the channel (PRECONDITION_FAILED); the client sees it at its next call
BasicAck(s, who, tag) ==
    Then(ChannelIO(s, who), LAMBDA t :
        IF Outstanding(t, who, tag) THEN Settle(t, who, tag)
        ELSE BrokerClosesChannel(t, who))

Delivery(t, who, tag) ==
    CHOOSE x \in {t.unacked[i] : i \in 1..Len(t.unacked)} :
        x.who = who /\ x.tag = tag

BasicNack(s, who, tag, requeue) ==
    Then(ChannelIO(s, who), LAMBDA t :
        IF ~Outstanding(t, who, tag) THEN BrokerClosesChannel(t, who)
        ELSE IF requeue
        THEN [Settle(t, who, tag) EXCEPT !.inQ = <<Delivery(t, who, tag).msg>> \o @]
        ELSE Settle(t, who, tag))

----------------------------------------------------------------------------
(* RabbitMQQueue *)

\* an assignment to self._needs_reinit; the trace keeps where it is cleared
SetNeedsReinit(s, who, v) ==
    IF v THEN [s EXCEPT !.cl[who].needs = TRUE]
    ELSE Mark([s EXCEPT !.cl[who].needs = FALSE], who, "cleared")

DeclareQueueBound(s, who) ==
    IF s.cl[who].chan # 0
    THEN Then(QueueDeclare(s, who), LAMBDA t : [t EXCEPT !.cl[who].decl = TRUE])
    ELSE s

Connect(s, who) ==
    Then(Then(Then(NewConnection(s, who),
                   LAMBDA t : NewChannel(t, who)),
              LAMBDA t : BasicQos(t, who)),
         LAMBDA t : SetNeedsReinit(t, who, FALSE))

\* the first branch of _ensure_channel: the connection is missing or closed
Reconnect(s, who) ==
    Then(Then(Connect(s, who),
              LAMBDA t : DeclareQueueBound(t, who)),
         LAMBDA t : SetNeedsReinit(t, who, FALSE))

\* a plausible slip: the new channel is left without its prefetch limit
ReinitializeWithoutQos(s, who) ==
    Then(Then(NewChannel(s, who),
              LAMBDA t : DeclareQueueBound(t, who)),
         LAMBDA t : SetNeedsReinit(t, who, FALSE))

\* the second branch, after the old channel was closed: a new channel
Reinitialize(s, who) ==
    Then(Then(Then(NewChannel(s, who),
                   LAMBDA t : BasicQos(t, who)),
              LAMBDA t : DeclareQueueBound(t, who)),
         LAMBDA t : SetNeedsReinit(t, who, FALSE))

\* a plausible slip: only the flag is consulted, a channel pika reports closed is kept
EnsureChannelKeepsClosed(s, who) ==
    IF s.cl[who].conn = 0 \/ s.cl[who].connClosed
    THEN Reconnect(s, who)
    ELSE IF s.cl[who].needs \/ s.cl[who].chan = 0
    THEN IF s.cl[who].chan # 0 /\ ~s.cl[who].chanClosed
         THEN Reinitialize(Catch(ChannelClose(s, who)), who)
         ELSE Reinitialize(s, who)
    ELSE s

\* a plausible slip: only a missing connection is replaced, a closed one is kept
EnsureChannelIfMissing(s, who) ==
    IF s.cl[who].conn = 0
    THEN Reconnect(s, who)
    ELSE IF s.cl[who].needs \/ s.cl[who].chan = 0 \/ s.cl[who].chanClosed
    THEN IF s.cl[who].chan # 0 /\ ~s.cl[who].chanClosed
         THEN Reinitialize(Catch(ChannelClose(s, who)), who)
         ELSE Reinitialize(s, who)
    ELSE s

\* a plausible slip: any doubt about the channel leads to a full reconnect
EnsureChannelReconnects(s, who) ==
    IF \/ s.cl[who].conn = 0 \/ s.cl[who].connClosed
       \/ s.cl[who].needs \/ s.cl[who].chan = 0 \/ s.cl[who].chanClosed
    THEN Reconnect(s, who)
    ELSE s

EnsureChannel(s, who) ==
    IF s.cl[who].conn = 0 \/ s.cl[who].connClosed
    THEN Reconnect(s, who)
    ELSE IF s.cl[who].needs \/ s.cl[who].chan = 0 \/ s.cl[who].chanClosed
    THEN IF s.cl[who].chan # 0 /\ ~s.cl[who].chanClosed
         THEN Reinitialize(Catch(ChannelClose(s, who)), who)
         ELSE Reinitialize(s, who)
    ELSE s

\* _ensure_channel as the first statement of an attempt, traced
Ensured(s, who) ==
    Then(EnsureChannel(s, who), LAMBDA t : Mark(t, who, "ensured"))

\* the method's own broker call, traced with the fields it is issued under
Call(s, who, F(_)) ==
    Then(s, LAMBDA t : F(Mark(t, who, "call")))

\* an attempt ends with an exception: the trace keeps its class
Failed(s, who) == IF s.exc = "none" THEN s ELSE Mark(s, who, "failed")

----------------------------------------------------------------------------
(* RabbitMQQueue's public methods.  Each returns the state with ret set, or   *)
(* with exc set when the exception leaves the method.                         *)

\* the except clause of a failed first attempt: _ensure_channel, traced
Retry(s, who) ==
    Failed(EnsureChannel(Mark(Catch(s), who, "retry"), who), who)

\* the except clause of the retry: mark for reinit and return the failure value
GiveUp(h, who, value) ==
    IF h.exc = "amqp"
    THEN Return(SetNeedsReinit(Catch(h), who, TRUE), value)
    ELSE h

PushInternal(s, who, queue, data) ==
    Failed(Then(Call(Then(Ensured(Mark(s, who, "try"), who),
                          LAMBDA t : IF Serializable(data) THEN t
                                     ELSE Raise(t, "type")),
                     who, LAMBDA t : BasicPublish(t, who, queue, data)),
                LAMBDA t : Return(t, "True")),
           who)

\* a plausible slip: no second attempt after a connectivity failure
PushGivesUpAtOnce(s, who, queue, data) ==
    Bind(PushInternal(s, who, queue, data), LAMBDA a :
        IF a.exc = "amqp" THEN GiveUp(a, who, "False")
        ELSE IF a.exc = "type" THEN Return(Catch(a), "False")
        ELSE a)

Push(s, who, queue, data) ==
    Bind(PushInternal(s, who, queue, data), LAMBDA a :
        IF a.exc = "amqp"
        THEN GiveUp(Then(Retry(a, who),
                         LAMBDA t : PushInternal(t, who, queue, data)),
                    who, "False")
        ELSE IF a.exc = "type" THEN Return(Catch(a), "False")
        ELSE a)

\* what _pop_internal makes of basic_get's answer
Decode(t) ==
    IF t.msg = NoMsg THEN Return(t, "None")
    ELSE IF ~Decodable(t.msg.body) THEN Raise(t, "decode")
    ELSE Return(t, "Message")

PopInternal(s, who) ==
    Failed(Then(Call(Ensured(Mark(s, who, "try"), who),
                     who, LAMBDA t : BasicGet(t, who)),
                LAMBDA t : Decode(t)),
           who)

Pop(s, who) ==
    Bind(PopInternal(s, who), LAMBDA a :
        IF a.exc = "amqp"
        THEN GiveUp(Then(Retry(a, who), LAMBDA t : PopInternal(t, who)),
                    who, "None")
        ELSE IF a.exc = "decode" THEN Return(Catch(a), "None")
        ELSE a)

\* a plausible slip: the broker call without _ensure_channel before it
AckInternalUnchecked(s, who, tag) ==
    Failed(Then(Call(Mark(s, who, "try"),
                     who, LAMBDA t : BasicAck(t, who, tag)),
                LAMBDA t : Return(t, "True")),
           who)

AckInternal(s, who, tag) ==
    Failed(Then(Call(Ensured(Mark(s, who, "try"), who),
                     who, LAMBDA t : BasicAck(t, who, tag)),
                LAMBDA t : Return(t, "True")),
           who)

\* a plausible slip: a failed retry is retried again
AckRetriesAgain(s, who, tag) ==
    Bind(AckInternal(s, who, tag), LAMBDA a :
        IF a.exc = "amqp"
        THEN Bind(Then(Retry(a, who), LAMBDA t : AckInternal(t, who, tag)),
                  LAMBDA b :
                      IF b.exc = "amqp"
                      THEN GiveUp(Then(Retry(b, who),
                                       LAMBDA t : AckInternal(t, who, tag)),
                                  who, "False")
                      ELSE b)
        ELSE a)

Ack(s, who, tag) ==
    Bind(AckInternal(s, who, tag), LAMBDA a :
        IF a.exc = "amqp"
        THEN GiveUp(Then(Retry(a, who), LAMBDA t : AckInternal(t, who, tag)),
                    who, "False")
        ELSE a)

NackInternal(s, who, tag, requeue) ==
    Failed(Then(Call(Ensured(Mark(s, who, "try"), who),
                     who, LAMBDA t : BasicNack(t, who, tag, requeue)),
                LAMBDA t : Return(t, "True")),
           who)

\* a plausible slip: giving up without marking the client for reinitialization
NackGivesUpUnmarked(s, who, tag, requeue) ==
    Bind(NackInternal(s, who, tag, requeue), LAMBDA a :
        IF a.exc = "amqp"
        THEN Bind(Then(Retry(a, who),
                       LAMBDA t : NackInternal(t, who, tag, requeue)),
                  LAMBDA h : IF h.exc = "amqp" THEN Return(Catch(h), "False")
                             ELSE h)
        ELSE a)

Nack(s, who, tag, requeue) ==
    Bind(NackInternal(s, who, tag, requeue), LAMBDA a :
        IF a.exc = "amqp"
        THEN GiveUp(Then(Retry(a, who),
                         LAMBDA t : NackInternal(t, who, tag, requeue)),
                    who, "False")
        ELSE a)

MessageCount(s, who) == IF who = "r" THEN Len(s.inQ) ELSE Len(s.outQ)

EmptyInternal(s, who) ==
    Failed(Then(Call(Ensured(Mark(s, who, "try"), who),
                     who, LAMBDA t : QueueDeclare(t, who)),
                LAMBDA t : Return(t, IF MessageCount(t, who) = 0 THEN "True"
                                     ELSE "False")),
           who)

Empty(s, who) ==
    Bind(EmptyInternal(s, who), LAMBDA a :
        IF a.exc = "amqp"
        THEN GiveUp(Then(Retry(a, who), LAMBDA t : EmptyInternal(t, who)),
                    who, "True")
        ELSE IF a.exc # "none" THEN Return(Catch(a), "True")
        ELSE a)

\* _ensure_channel and the passive declare, written inline in ping's try
PingAttempt(s, who) ==
    Failed(Then(Call(Ensured(Mark(s, who, "try"), who),
                     who, LAMBDA t : QueueDeclare(t, who)),
                LAMBDA t : Return(t, "pong")),
           who)

\* the same two statements in ping's except clause, where any Exception gives up
PingRetry(s, who) ==
    Bind(Failed(Then(Call(Ensured(Mark(Catch(s), who, "retry"), who),
                          who, LAMBDA t : QueueDeclare(t, who)),
                     LAMBDA t : Return(t, "pong")),
                who),
         LAMBDA h : IF h.exc # "none"
                    THEN Return(SetNeedsReinit(Catch(h), who, TRUE), "error")
                    ELSE h)

\* a plausible slip: ping looks at the objects' flags and asks the broker nothing
PingLooksAtFlags(s, who) ==
    IF s.cl[who].conn # 0 /\ ~s.cl[who].connClosed /\ ~s.cl[who].chanClosed
    THEN Return(s, "pong")
    ELSE Return(s, "error")

Ping(s, who) ==
    Bind(PingAttempt(s, who), LAMBDA a :
        IF a.exc = "amqp" THEN PingRetry(a, who)
        ELSE IF a.exc # "none" THEN Return(Catch(a), "error")
        ELSE a)

DeclareQueue(s, who) ==
    Bind(Failed(Then(Call(Ensured(Mark(s, who, "try"), who),
                          who, LAMBDA t : QueueDeclare(t, who)),
                     LAMBDA t : Return(t, "True")),
                who),
         LAMBDA a : IF a.exc # "none"
                    THEN Return(SetNeedsReinit(Catch(a), who, TRUE), "False")
                    ELSE a)

\* close(): the first try, `if self._channel and self._channel.is_open`
CloseChannel(s, who) ==
    IF s.cl[who].chan # 0 /\ ~s.cl[who].chanClosed
    THEN Catch(Failed(ChannelClose(Mark(s, who, "close_chan"), who), who))
    ELSE s

\* close(): the second try, `if self._connection and self._connection.is_open`
CloseConnection(s, who) ==
    IF s.cl[who].conn # 0 /\ ~s.cl[who].connClosed
    THEN Catch(Failed(ConnectionClose(Mark(s, who, "close_conn"), who), who))
    ELSE s

\* a plausible slip: one try around both, a failing channel skips the connection
CloseInOneTry(s, who) ==
    Bind(CloseChannel(s, who), LAMBDA a :
        IF a.tr # <<>> /\ a.tr[Len(a.tr)].e = "failed" THEN Return(a, "None")
        ELSE Return(CloseConnection(a, who), "None"))

Close(s, who) == Return(CloseConnection(CloseChannel(s, who), who), "None")

----------------------------------------------------------------------------
(* Taking a method's outcome as the next state *)

Commit(s) ==
    /\ s.plan.at <= s.n
    /\ s.plan.at # 0 => faults < MaxFaults
    /\ \A w \in Who : s.cl[w].nid <= MaxIds
    /\ Len(s.outQ) <= MaxOut
    /\ cl' = s.cl
    /\ up' = s.up
    /\ dns' = s.dns
    /\ inQ' = s.inQ
    /\ outQ' = s.outQ
    /\ unacked' = s.unacked
    /\ faults' = faults + (IF s.plan.at # 0 THEN 1 ELSE 0)

\* the environment between two methods
Happens(s) ==
    /\ faults < MaxFaults
    /\ last.op = "none"
    /\ pc # "stopped"
    /\ <<s.cl, s.up, s.dns, s.inQ, s.unacked>> # <<cl, up, dns, inQ, unacked>>
    /\ cl' = s.cl
    /\ up' = s.up
    /\ dns' = s.dns
    /\ inQ' = s.inQ
    /\ outQ' = s.outQ
    /\ unacked' = s.unacked
    /\ faults' = faults + 1
    /\ UNCHANGED <<last, pc, cur, log>>

Fault ==
    \E who \in Who, ev \in Events : Happens(ApplyEvent(Start(NoPlan), who, ev))

\* __init__ has run with the broker reachable: _connect, _declare_queue
NewClient ==
    [conn |-> 1, connClosed |-> FALSE, connDead |-> FALSE,
     chan |-> 2, chanClosed |-> FALSE, chanDead |-> FALSE,
     needs |-> FALSE, qos |-> PrefetchCount, decl |-> TRUE, tags |-> 0, nid |-> 3]

Inbound(bs) == [i \in 1..Len(bs) |-> [id |-> i, body |-> bs[i]]]

NoCall == [op |-> "none", arg |-> Null, ret |-> "unset", exc |-> "none",
           msg |-> NoMsg, tr |-> <<>>, before |-> NewClient,
           quiet |-> TRUE, up |-> TRUE, out |-> <<>>, calls |-> 0]

NoCur == [msg |-> NoMsg, cls |-> "none", payload |-> Null]

----------------------------------------------------------------------------
(* The client called directly, one method at a time, with any argument.  A   *)
(* behaviour calls any methods in any order; it may keep the trace of one    *)
(* call, and ends there.                                                     *)

Report(s, op, arg) ==
    \E keep \in BOOLEAN :
        last' = IF keep
                THEN [op |-> op, arg |-> arg, ret |-> s.ret, exc |-> s.exc,
                      msg |-> s.msg, tr |-> s.tr, before |-> cl["r"],
                      quiet |-> s.plan = NoPlan, up |-> up, out |-> outQ,
                      calls |-> s.n]
                ELSE NoCall

Direct(s, op, arg) ==
    /\ last.op = "none"
    /\ Commit(s)
    /\ Report(s, op, arg)
    /\ UNCHANGED <<pc, cur, log>>

QPush ==
    \E plan \in Plans, data \in Payloads :
        Direct(Push(Start(plan), "r", "message_uploader", data), "push", data)

QPop ==
    \E plan \in Plans :
        Direct(Pop(Start(plan), "r"), "pop", Null)

QAck ==
    \E plan \in Plans, tag \in Tags :
        Direct(Ack(Start(plan), "r", tag), "ack", Null)

QNack ==
    \E plan \in Plans, tag \in Tags, requeue \in BOOLEAN :
        Direct(Nack(Start(plan), "r", tag, requeue), "nack", Null)

QEmpty ==
    \E plan \in Plans :
        Direct(Empty(Start(plan), "r"), "empty", Null)

QPing ==
    \E plan \in Plans :
        Direct(Ping(Start(plan), "r"), "ping", Null)

QDeclareQueue ==
    \E plan \in Plans :
        Direct(DeclareQueue(Start(plan), "r"), "declare_queue", Null)

QClose ==
    \E plan \in Plans :
        Direct(Close(Start(plan), "r"), "close", Null)

\* the queue holds MaxMsgs messages, undecodable and decodable in turn
QueueInit ==
    /\ cl = [w \in Who |-> NewClient]
    /\ up = TRUE
    /\ dns = TRUE
    /\ inQ = Inbound([i \in 1..MaxMsgs |->
                         IF i % 2 = 1 THEN Body("garbage", Absent, Absent)
                         ELSE Body("object", "u1", "a cat sleeping")])
    /\ outQ = <<>>
    /\ unacked = <<>>
    /\ faults = 0
    /\ last = NoCall
    /\ pc = "unused"
    /\ cur = NoCur
    /\ log = <<>>

QueueNext ==
    \/ QPush
    \/ QPop
    \/ QAck
    \/ QNack
    \/ QEmpty
    \/ QPing
    \/ QDeclareQueue
    \/ Fault

QueueSpec == QueueInit /\ [][QueueNext]_vars

\* The client's whole life: close() among the other calls, with one environment
\* event left to happen.
CloseInit ==
    /\ cl = [w \in Who |-> NewClient]
    /\ up = TRUE
    /\ dns = TRUE
    /\ inQ = Inbound([i \in 1..MaxMsgs |->
                         IF i % 2 = 1 THEN Body("garbage", Absent, Absent)
                         ELSE Body("object", "u1", "a cat sleeping")])
    /\ outQ = <<>>
    /\ unacked = <<>>
    /\ faults = MaxFaults - 1
    /\ last = NoCall
    /\ pc = "unused"
    /\ cur = NoCur
    /\ log = <<>>

CloseNext ==
    \/ QClose
    \/ QPush
    \/ QPop
    \/ QAck
    \/ QNack
    \/ QEmpty
    \/ QPing
    \/ QDeclareQueue
    \/ Fault

CloseSpec == CloseInit /\ [][CloseNext]_vars

----------------------------------------------------------------------------
(* main.py: validation and classification *)

\* Python's `not value` for what body.get returns: None, the empty string, or
\* another falsy JSON value (the number 0; false and empty containers alike)
Falsy(v) == v \in {Absent, "", Zero}

\* a plausible slip: only user_id is checked
ValidateBodyUserOnly(body) ==
    LET msgs == IF Falsy(body.user_id) THEN <<"user_id">> ELSE <<>>
    IN  [error |-> Len(msgs) > 0, messages |-> msgs]

\* validate_body: the error flag and the number of messages collected
ValidateBody(body) ==
    LET msgs == (IF Falsy(body.user_id) THEN <<"user_id">> ELSE <<>>)
                \o (IF Falsy(body.message) THEN <<"message">> ELSE <<>>)
    IN  [error |-> Len(msgs) > 0, messages |-> msgs]

Classes == <<"cat", "butterfly">>

None == "None"

\* distances in hundredths: get_config's MAX_MESSAGES_DISTANCE and the sentinel 1.0
MaxMessagesDistance == 30

Sentinel == 100

Distances == {10, 20, 50}

\* message_compare_carrier(cmp, eps): compare(a, b) for a distance cmp computes
Compare(dist, eps) == [is_similar |-> dist < eps, metric |-> dist]

RECURSIVE ScanLastWins(_, _, _, _)

\* a plausible slip: <= in the comparison, so a later category wins a tie
ScanLastWins(classes, comparer, max_value, relevant) ==
    IF classes = <<>> THEN relevant
    ELSE LET res == comparer[Head(classes)]
         IN  IF res.is_similar /\ res.metric <= max_value
             THEN ScanLastWins(Tail(classes), comparer, res.metric, Head(classes))
             ELSE ScanLastWins(Tail(classes), comparer, max_value, relevant)

RECURSIVE Scan(_, _, _, _)

\* the for loop of get_relevant_class; comparer[c] is comparer(c, message)
Scan(classes, comparer, max_value, relevant) ==
    IF classes = <<>> THEN relevant
    ELSE LET res == comparer[Head(classes)]
         IN  IF res.is_similar /\ res.metric < max_value
             THEN Scan(Tail(classes), comparer, res.metric, Head(classes))
             ELSE Scan(Tail(classes), comparer, max_value, relevant)

GetRelevantClass(classes, comparer) == Scan(classes, comparer, Sentinel, None)

\* a plausible slip: the unknown-class payload is not flagged as an error
UnknownPayloadUnflagged(uid) ==
    ResultPayload(uid, Null, Null, FALSE, "Unknown received class")

UnknownPayload(uid) ==
    ResultPayload(uid, Null, Null, TRUE, "Unknown received class")

OkPayload(uid) == ResultPayload(uid, "b64", "[3,64,64]", FALSE, "ok")

----------------------------------------------------------------------------
(* main.py: process_queue, one action per blocking call of its loop *)

LogEvent(op, arg, res, clients) ==
    [op |-> op, arg |-> arg, res |-> res, chan |-> clients["r"].chan]

\* a plausible slip: the result of push is not looked at
AfterPushUnchecked(success) == "ack"

\* the statement after `success = uploader_queue.push(...)`
AfterPush(success) == IF success = "True" THEN "ack" ELSE "nack"

\* a plausible slip: the handler hands the message back to the queue
HandlerRequeues == TRUE

\* requeue of the per-message handler's nack
HandlerRequeue == FALSE

\* a plausible slip: the handler raises the error again and the loop is left
HandlerReraises(kind) ==
    /\ pc' = "stopped"
    /\ log' = Append(log, LogEvent("raise", kind, "none", cl))
    /\ UNCHANGED cur

\* a plausible slip: the handler logs the error and does not settle the message
HandlerSwallows(kind) ==
    /\ pc' = "pop"
    /\ log' = Append(log, LogEvent("raise", kind, "none", cl))
    /\ UNCHANGED cur

\* raise inside the inner try: the handler nacks
Handler(kind) ==
    /\ pc' = "nack"
    /\ log' = Append(log, LogEvent("raise", kind, "none", cl))
    /\ UNCHANGED cur

Local == UNCHANGED <<cl, up, dns, inQ, outQ, unacked, faults, last>>

\* a plausible slip: no outer except, an exception of pop leaves the loop
PoppedUncaught(s) ==
    /\ Commit(s)
    /\ IF s.exc # "none"
       THEN /\ pc' = "stopped"
            /\ cur' = NoCur
            /\ log' = <<LogEvent("escaped", "pop", s.exc, s.cl)>>
       ELSE IF s.ret = "None"
       THEN pc' = "idle" /\ cur' = NoCur /\ log' = <<>>
       ELSE /\ pc' = "validate"
            /\ cur' = [NoCur EXCEPT !.msg = s.msg]
            /\ log' = <<LogEvent("pop", s.msg.tag, "Message", s.cl)>>

Popped(s) ==
    /\ Commit(s)
    /\ IF s.exc # "none"
       THEN /\ pc' = "cooldown"
            /\ cur' = NoCur
            /\ log' = <<LogEvent("escaped", "pop", s.exc, s.cl)>>
       ELSE IF s.ret = "None"
       THEN pc' = "idle" /\ cur' = NoCur /\ log' = <<>>
       ELSE /\ pc' = "validate"
            /\ cur' = [NoCur EXCEPT !.msg = s.msg]
            /\ log' = <<LogEvent("pop", s.msg.tag, "Message", s.cl)>>

PPop ==
    /\ pc = "pop"
    /\ \E plan \in Plans : Popped(Pop(Start(plan), "r"))
    /\ UNCHANGED last

PValidate ==
    /\ pc = "validate"
    /\ Local
    /\ IF cur.msg.body.fmt # "object" THEN Handler("AttributeError")
       ELSE IF ValidateBody(cur.msg.body).error THEN Handler("ValueError")
       ELSE pc' = "classify" /\ UNCHANGED <<cur, log>>

PClassify ==
    /\ pc = "classify"
    /\ Local
    /\ \/ Handler("comparer")
       \/ \E d \in [{Classes[i] : i \in DOMAIN Classes} -> Distances] :
              LET comparer == [c \in DOMAIN d |-> Compare(d[c], MaxMessagesDistance)]
                  relevant_class == GetRelevantClass(Classes, comparer)
              IN  /\ log' = Append(log, LogEvent("classify", relevant_class, "none", cl))
                  /\ IF relevant_class = None
                     THEN /\ pc' = "push"
                          /\ cur' = [cur EXCEPT
                                 !.payload = UnknownPayload(cur.msg.body.user_id)]
                     ELSE /\ pc' = "generate"
                          /\ cur' = [cur EXCEPT !.cls = relevant_class]

PGenerate ==
    /\ pc = "generate"
    /\ Local
    /\ \/ /\ pc' = "nack"
          /\ log' = log \o <<LogEvent("generate", cur.cls, "raised", cl),
                             LogEvent("raise", "generate", "none", cl)>>
          /\ UNCHANGED cur
       \/ /\ pc' = "push"
          /\ log' = Append(log, LogEvent("generate", cur.cls, "image", cl))
          /\ cur' = [cur EXCEPT !.payload = OkPayload(cur.msg.body.user_id)]

Pushed(s) ==
    /\ Commit(s)
    /\ IF s.exc = "none" /\ AfterPush(s.ret) = "ack"
       THEN /\ pc' = "ack"
            /\ log' = Append(log, LogEvent("push", cur.payload, s.ret, s.cl))
       ELSE /\ pc' = "nack"
            /\ log' = log \o <<LogEvent("push", cur.payload,
                                         IF s.exc # "none" THEN "raised" ELSE s.ret,
                                         s.cl),
                                LogEvent("raise", "push", "none", s.cl)>>

PPush ==
    /\ pc = "push"
    /\ \E plan \in Plans :
           Pushed(Push(Start(plan), "u", "message_uploader", cur.payload))
    /\ UNCHANGED <<cur, last>>

\* ack returned, or raised: nothing in the loop reads which
Acked(s) ==
    /\ Commit(s)
    /\ IF s.exc = "none"
       THEN /\ pc' = "pop"
            /\ log' = Append(log, LogEvent("ack", cur.msg.tag, s.ret, s.cl))
       ELSE /\ pc' = "nack"
            /\ log' = log \o <<LogEvent("ack", cur.msg.tag, "raised", s.cl),
                                LogEvent("raise", "ack", "none", s.cl)>>

PAck ==
    /\ pc = "ack"
    /\ \E plan \in Plans : Acked(Ack(Start(plan), "r", cur.msg.tag))
    /\ UNCHANGED <<cur, last>>

Nacked(s) ==
    /\ Commit(s)
    /\ IF s.exc = "none"
       THEN /\ pc' = "pop"
            /\ log' = Append(log, LogEvent("nack",
                                 [tag |-> cur.msg.tag, requeue |-> HandlerRequeue],
                                 s.ret, s.cl))
       ELSE /\ pc' = "cooldown"
            /\ log' = log \o <<LogEvent("nack",
                                 [tag |-> cur.msg.tag, requeue |-> HandlerRequeue],
                                 "raised", s.cl),
                                LogEvent("escaped", "nack", s.exc, s.cl)>>

PNack ==
    /\ pc = "nack"
    /\ \E plan \in Plans : Nacked(Nack(Start(plan), "r", cur.msg.tag, HandlerRequeue))
    /\ UNCHANGED <<cur, last>>

\* time.sleep(0.5) after an empty pop, time.sleep(5) after a critical error
PSleep ==
    /\ pc \in {"idle", "cooldown"}
    /\ pc' = "pop"
    /\ Local
    /\ UNCHANGED <<cur, log>>

\* KeyboardInterrupt: raised wherever the loop is, caught by the outer except
Interrupt ==
    /\ pc \in {"pop", "validate", "classify", "generate", "push", "ack", "nack",
               "idle", "cooldown"}
    /\ pc' = "stopped"
    /\ Local
    /\ UNCHANGED <<cur, log>>

Init ==
    /\ cl = [w \in Who |-> NewClient]
    /\ up = TRUE
    /\ dns = TRUE
    /\ \E bs \in [1..MaxMsgs -> Bodies] : inQ = Inbound(bs)
    /\ outQ = <<>>
    /\ unacked = <<>>
    /\ faults = 0
    /\ last = NoCall
    /\ pc = "pop"
    /\ cur = NoCur
    /\ log = <<>>

Next ==
    \/ PPop
    \/ PValidate
    \/ PClassify
    \/ PGenerate
    \/ PPush
    \/ PAck
    \/ PNack
    \/ PSleep
    \/ Interrupt
    \/ Fault

Spec == Init /\ [][Next]_vars

\* The loop left to run: the broker stays reachable, no link is lost and no
\* interrupt arrives.
Positions ==
    {"pop", "validate", "classify", "generate", "push", "ack", "nack", "idle",
     "cooldown"}

\* process_queue is sequential code on the main thread: until it returns, the
\* call it is in comes back and the loop moves to its next position
Advance ==
    /\ pc \in Positions
    /\ pc' \in (Positions \cup {"stopped"}) \ {pc}

LiveInit ==
    /\ cl = [w \in Who |-> NewClient]
    /\ up = TRUE
    /\ dns = TRUE
    /\ \E bs \in [1..MaxMsgs -> Bodies] : inQ = Inbound(bs)
    /\ outQ = <<>>
    /\ unacked = <<>>
    /\ faults = MaxFaults
    /\ last = NoCall
    /\ pc = "pop"
    /\ cur = NoCur
    /\ log = <<>>

LiveNext ==
    \/ PPop
    \/ PValidate
    \/ PClassify
    \/ PGenerate
    \/ PPush
    \/ PAck
    \/ PNack
    \/ PSleep

LiveSpec == LiveInit /\ [][LiveNext]_vars /\ WF_pc(Advance)

----------------------------------------------------------------------------
(* get_relevant_class called on its own, with any category list and any      *)
(* comparer.  Here cur holds the call: its arguments and what it returned.   *)

MaxClasses == 3   \* length of the category list

Categories == {"cat", "butterfly", "owl"}

\* distances a comparer reports, in hundredths: below, at and above the sentinel
Metrics == {20, 50, 100, 120}

\* what comparer(cl, message) returns: the flag and the distance are independent
CompareResults == [is_similar : BOOLEAN, metric : Metrics]

ClassLists == UNION {[1..n -> Categories] : n \in 0..MaxClasses}

ClassInit ==
    /\ cl = [w \in Who |-> NewClient]
    /\ up = TRUE
    /\ dns = TRUE
    /\ inQ = <<>>
    /\ outQ = <<>>
    /\ unacked = <<>>
    /\ faults = 0
    /\ last = NoCall
    /\ log = <<>>
    /\ pc = "call"
    /\ \E classes \in ClassLists, comparer \in [Categories -> CompareResults] :
           cur = [classes |-> classes, comparer |-> comparer, ret |-> "unset"]

GetRelevantClassCall ==
    /\ pc = "call"
    /\ pc' = "returned"
    /\ cur' = [cur EXCEPT !.ret = GetRelevantClass(cur.classes, cur.comparer)]
    /\ Local
    /\ UNCHANGED log

ClassNext == GetRelevantClassCall

ClassSpec == ClassInit /\ [][ClassNext]_vars

----------------------------------------------------------------------------
(* Reading the trace of the kept call *)

At(e) == {i \in DOMAIN last.tr : last.tr[i].e = e}

ConnectivityFailures == {i \in At("failed") : last.tr[i].exc = "amqp"}

RetryOps == {"push", "pop", "ack", "nack", "empty", "ping"}

FailureValue(op) ==
    CASE op \in {"push", "ack", "nack"} -> "False"
      [] op = "pop"                     -> "None"
      [] op = "empty"                   -> "True"
      [] op = "ping"                    -> "error"
      [] OTHER                          -> "False"

----------------------------------------------------------------------------
(* Claims about process_queue, checked under Spec.  log holds what the loop   *)
(* did for the message in cur, from its pop on.                               *)

Ops(o) == {i \in DOMAIN log : log[i].op = o}

Final == log[Len(log)]

\* the iteration that popped cur.msg has run to its end
IterationOver == pc = "pop" /\ log # <<>>

\* C1: receiver_queue.ack is called only with the delivery tag of the popped
\* message and only right after uploader_queue.push of that message's result has
\* returned True; the loop is never about to ack after any other outcome.
C1_AckOnlyAfterPush ==
    /\ \A i \in Ops("ack") :
           /\ i > 1
           /\ log[i-1].op = "push"
           /\ log[i-1].res = "True"
           /\ log[i-1].arg.user_id = cur.msg.body.user_id
           /\ log[i].arg = cur.msg.tag
           /\ log[1].op = "pop" /\ log[1].arg = cur.msg.tag
    /\ pc = "ack" => Final.op = "push" /\ Final.res = "True"

C1_Witness ==
    /\ IterationOver
    /\ Final.op = "ack"
    /\ Final.res = "True"
    /\ log[Len(log)-1].arg.error = FALSE

\* C2: when uploader_queue.push returns False the message is not acked and
\* nack(delivery_tag, requeue=False) is issued, so that at the end of the
\* iteration the broker holds the message neither unacknowledged nor in the queue.
C2_PushFailureDropsMessage ==
    (\E i \in Ops("push") : log[i].res = "False") =>
        /\ Ops("ack") = {}
        /\ pc \in {"nack", "pop", "stopped"}
        /\ IterationOver =>
               /\ Final.op = "nack"
               /\ Final.arg = [tag |-> cur.msg.tag, requeue |-> FALSE]
               /\ \A j \in DOMAIN inQ : inQ[j].id # cur.msg.id
               /\ \A j \in DOMAIN unacked : unacked[j].msg.id # cur.msg.id

\* C3: an exception raised between the pop and the end of the iteration leads to
\* the handler, which calls nack once, with the message's delivery tag and
\* requeue=False; nack is called nowhere else and never with requeue=True.
C3_HandlerNacksOnce ==
    /\ \A i \in Ops("nack") :
           /\ log[i].arg = [tag |-> cur.msg.tag, requeue |-> FALSE]
           /\ i = Len(log) \/ (i = Len(log) - 1 /\ Final.op = "escaped")
           /\ i > 1 /\ log[i-1].op = "raise"
    /\ Cardinality(Ops("nack")) <= 1
    /\ Ops("raise") # {} =>
           /\ Cardinality(Ops("raise")) = 1
           /\ pc \in {"nack", "pop", "cooldown", "stopped"}
           /\ pc \in {"pop", "cooldown"} => Cardinality(Ops("nack")) = 1
    /\ pc = "nack" => Final.op = "raise"

C3_Witness ==
    /\ IterationOver
    /\ \E i \in Ops("raise") : log[i].arg = "generate"
    /\ Final.op = "nack"
    /\ Final.res = "True"

\* a body that is an object with user_id or message missing or empty
Invalid(body) ==
    /\ body.fmt = "object"
    /\ \/ body.user_id \in {Absent, ""}
       \/ body.message \in {Absent, ""}

\* C4: for a popped message whose body fails validation the loop neither
\* classifies, generates nor pushes, never acks, and ends the iteration with
\* nack(delivery_tag, requeue=False).
C4_InvalidBodyNacked ==
    (log # <<>> /\ Invalid(cur.msg.body)) =>
        /\ \A i \in DOMAIN log : log[i].op \in {"pop", "raise", "nack", "escaped"}
        /\ pc \in {"validate", "nack", "pop", "cooldown", "stopped"}
        /\ pc \in {"pop", "cooldown"} =>
               \E i \in Ops("nack") :
                   /\ log[i].arg = [tag |-> cur.msg.tag, requeue |-> FALSE]
                   /\ i = Len(log) \/ (i = Len(log) - 1 /\ Final.op = "escaped")

C4_Witness ==
    /\ IterationOver
    /\ Invalid(cur.msg.body)
    /\ cur.msg.body.message = Absent
    /\ Final.op = "nack"
    /\ Final.res = "True"
    /\ outQ = <<>>

\* the claim's words: the field is there and its value is not empty
PresentNonEmpty(v) == v # Absent /\ v # ""

\* the validation step of the loop has run
ValidateStep == pc = "validate" /\ pc' \notin {"validate", "stopped"}

\* C21 as stated: validation accepts a body exactly when user_id and message are
\* both present and non-empty, and ends in the next step of the iteration or
\* in the handler's nack, never in the outer except.
C21_ValidExactlyWhenPresent ==
    [][ValidateStep =>
          /\ pc' \in {"classify", "nack"}
          /\ cur.msg.body.fmt = "object" =>
                 (pc' = "classify" <=>
                      /\ PresentNonEmpty(cur.msg.body.user_id)
                      /\ PresentNonEmpty(cur.msg.body.message))]_vars

\* C21 amended: validation accepts a body exactly when user_id and message are
\* both truthy for Python (so a user_id of 0 is refused), a body that is not
\* an object goes to the handler, and validation ends in the next step of the
\* iteration or in the handler's nack, never in the outer except.
C21_ValidExactlyWhenTruthy ==
    [][ValidateStep =>
          /\ pc' \in {"classify", "nack"}
          /\ pc' = "classify" <=>
                 /\ cur.msg.body.fmt = "object"
                 /\ ~Falsy(cur.msg.body.user_id)
                 /\ ~Falsy(cur.msg.body.message)
          /\ pc' = "nack" =>
                 /\ log' = Append(log, log'[Len(log')])
                 /\ log'[Len(log')].op = "raise"
                 /\ log'[Len(log')].arg =
                        IF cur.msg.body.fmt = "object" THEN "ValueError"
                        ELSE "AttributeError"]_vars

\* the body with an empty user_id has been refused and handed to the handler
C21_Witness ==
    /\ pc = "nack"
    /\ cur.msg.body = Body("object", "", "hi")
    /\ Final.op = "raise"
    /\ Final.arg = "ValueError"

\* a result payload: the image and its shape are there exactly when error is false
WellFormed(p) ==
    /\ p.error => p.image_b64 = Null /\ p.shape = Null
    /\ ~p.error => p.image_b64 # Null /\ p.shape # Null

\* C22: every payload the loop hands to push, and every payload in the outbound
\* queue, has image_b64 and shape null when error is true and both non-null when
\* error is false; the payload handed to push carries the user_id of the message
\* in hand.
C22_PayloadWellFormed ==
    /\ \A i \in DOMAIN outQ : WellFormed(outQ[i])
    /\ \A i \in Ops("push") :
           /\ WellFormed(log[i].arg)
           /\ log[i].arg.user_id = cur.msg.body.user_id
    /\ pc = "push" =>
           /\ WellFormed(cur.payload)
           /\ cur.payload.user_id = cur.msg.body.user_id

\* an error payload and an image payload have both been published, the second
\* for the message in hand
C22_Witness ==
    /\ Len(outQ) = 2
    /\ outQ[1].error
    /\ ~outQ[2].error
    /\ outQ[1].user_id # outQ[2].user_id
    /\ Ops("push") # {}
    /\ Final.op = "push"
    /\ Final.res = "True"

\* the classifier found no category for the message in hand
Unresolved == \E i \in Ops("classify") : log[i].arg = None

\* C23: once the classifier has resolved no category the loop never calls the
\* generator for the message, calls push at most once and exactly once when the
\* iteration completes, with the payload error=true, 'Unknown received class'
\* and no image, and acks the message only right after that push returned True.
C23_UnknownClassPushedAndAcked ==
    Unresolved =>
        /\ Ops("generate") = {}
        /\ pc # "generate"
        /\ Cardinality(Ops("push")) <= 1
        /\ \A i \in Ops("push") :
               /\ log[i].arg.error = TRUE
               /\ log[i].arg.message = "Unknown received class"
               /\ log[i].arg.image_b64 = Null
               /\ log[i].arg.shape = Null
               /\ log[i].arg.user_id = cur.msg.body.user_id
               /\ log[i].res = "True" =>
                      outQ # <<>> /\ outQ[Len(outQ)] = log[i].arg
        /\ \A i \in Ops("ack") :
               /\ i > 1
               /\ log[i-1].op = "push"
               /\ log[i-1].res = "True"
               /\ log[i].arg = cur.msg.tag
        /\ IterationOver =>
               /\ Cardinality(Ops("push")) = 1
               /\ \A i \in Ops("push") :
                      log[i].res = "True" <=> Ops("ack") # {}

\* no category for 'quantum mechanics': the error payload is out, the message acked
C23_Witness ==
    /\ IterationOver
    /\ Unresolved
    /\ cur.msg.body.message = "quantum mechanics"
    /\ Final.op = "ack"
    /\ Final.res = "True"
    /\ outQ[Len(outQ)].message = "Unknown received class"

\* deliveries of the inbound queue the broker holds unsettled for the receiver
Held == {i \in DOMAIN unacked : unacked[i].who = "r"}

\* C13: the receiver never holds more unsettled deliveries than its prefetch
\* count; with the default of 1, at most one inbound delivery is outstanding in
\* every reachable state of the pipeline.
C13_AtMostPrefetchHeld == Cardinality(Held) <= PrefetchCount

\* C14: once nack(delivery_tag, requeue=False) was issued for a message, the
\* next pop that returns a message does not return that message again, whatever
\* happened to the channel or the connection between its pop and its nack.
C14_NackedNotPoppedAgain ==
    [][(IterationOver /\ Final.op = "nack" /\ pc' = "validate")
           => cur'.msg.id # cur.msg.id]_vars

\* C15: when ack(delivery_tag) has returned True, the broker holds the message of
\* that delivery neither in the queue nor as an unsettled delivery, so that no
\* later pop can return it; also when ack succeeded on its second attempt.
C15_AckedIsRemoved ==
    (IterationOver /\ Final.op = "ack" /\ Final.res = "True") =>
        /\ \A j \in DOMAIN inQ : inQ[j].id # cur.msg.id
        /\ \A j \in DOMAIN unacked : unacked[j].msg.id # cur.msg.id

\* C16: the loop stops only by the interrupt, never as the outcome of a broker
\* call or of handling a message; an exception that escapes the per-message
\* handler puts the loop into its cooldown, and the cooldown is left only to poll
\* again (or by the interrupt).
C16_OnlyInterruptStops ==
    [][/\ (pc # "stopped" /\ pc' = "stopped") =>
              UNCHANGED <<cl, up, dns, inQ, outQ, unacked, faults, cur, log>>
       /\ (pc # "cooldown" /\ pc' = "cooldown") =>
              log' # <<>> /\ log'[Len(log')].op = "escaped"
       /\ (log' # log /\ log' # <<>> /\ log'[Len(log')].op = "escaped") =>
              pc' = "cooldown"
       /\ (pc = "cooldown" /\ pc' # "cooldown") => pc' \in {"pop", "stopped"}]_vars

\* an exception escaped from pop, the cooldown is over and the loop polls again
C16_Witness ==
    /\ pc = "pop"
    /\ log # <<>>
    /\ Final.op = "escaped"
    /\ Final.res = "decode"

\* C17: when the loop has stopped on the interrupt, the message of the iteration
\* in progress, if one was popped, has had its ack or its nack issued; no message
\* is left fetched and unsettled, no result pushed without the ack that follows.
C17_StopsBetweenIterations ==
    pc = "stopped" => (log = <<>> \/ Final.op \in {"ack", "nack", "escaped"})

\* C18: whenever the loop is about to call pop after an iteration that popped a
\* message, the last thing that iteration did was to issue ack or nack with that
\* message's delivery tag.
C18_SettledBeforeNextPop ==
    (pc = "pop" /\ log # <<>> /\ log[1].op = "pop") =>
        \/ Final.op = "ack" /\ Final.arg = log[1].arg
        \/ Final.op = "nack" /\ Final.arg.tag = log[1].arg
        \/ /\ Final.op = "escaped"
           /\ Final.arg = "nack"
           /\ log[Len(log)-1].op = "nack"
           /\ log[Len(log)-1].arg.tag = log[1].arg

\* the second message of the queue was popped and its iteration has ended
C18_Witness ==
    /\ IterationOver
    /\ log[1].op = "pop"
    /\ cur.msg.id = 2
    /\ Final.op = "ack"
    /\ Len(outQ) = 2

\* the broker holds the popped message, in the queue or as an unsettled delivery
AtBroker ==
    \/ \E j \in DOMAIN inQ : inQ[j].id = cur.msg.id
    \/ \E j \in DOMAIN unacked : unacked[j].msg.id = cur.msg.id

\* C28: when an iteration that popped a message is over and the loop is about to
\* pop again, the broker has accepted an ack or a nack for that delivery, whatever
\* ack or nack returned: the message is neither unsettled nor back in the queue.
C28_SettledWhenIterationEnds ==
    (IterationOver /\ log[1].op = "pop") => ~AtBroker

\* C30: for a popped delivery the loop pushes at most one result and issues at
\* most one of ack and nack; a delivery whose result push returned True is never
\* nacked, and a nacked delivery has no successfully pushed result.
C30_OnePushOneSettlement ==
    /\ Cardinality(Ops("push")) <= 1
    /\ Cardinality(Ops("ack") \cup Ops("nack")) <= 1
    /\ (\E i \in Ops("push") : log[i].res = "True") => Ops("nack") = {}

\* a body the loop cannot process: not JSON, not an object, or failing validation
Bad(body) == ~Decodable(body) \/ body.fmt # "object" \/ Invalid(body)

\* the loop has dealt with the second message of the queue: its iteration is
\* over, or it was fetched and found undecodable
SecondHandled ==
    \/ IterationOver /\ cur.msg.id = 2 /\ Final.op \in {"ack", "nack"}
    \/ \E j \in DOMAIN unacked :
           unacked[j].msg.id = 2 /\ ~Decodable(unacked[j].msg.body)

\* the loop is about to fetch a first message it cannot process
FirstIsBad ==
    /\ pc = "pop"
    /\ log = <<>>
    /\ Len(inQ) = MaxMsgs
    /\ Bad(inQ[1].body)

\* the first message is not in the queue to be delivered
FirstGone == \A j \in DOMAIN inQ : inQ[j].id # 1

\* C19: when the first message of the queue is one the loop cannot process, the
\* loop still gets to the next message and deals with it, and from some point on
\* the bad message is never again in the queue to be delivered.
C19_BadMessageDoesNotStall ==
    [](FirstIsBad => (<>SecondHandled /\ <>[]FirstGone))

\* the first message could not be decoded and the second has been processed
C19_Witness ==
    /\ IterationOver
    /\ cur.msg.id = 2
    /\ Final.op = "ack"
    /\ Final.res = "True"
    /\ Len(outQ) = 1
    /\ \E j \in DOMAIN unacked : unacked[j].msg.id = 1 /\ Bad(unacked[j].msg.body)

----------------------------------------------------------------------------
(* Claims about RabbitMQQueue, checked under QueueSpec *)

\* what _ensure_channel tests: nothing to reconnect, nothing to reinitialize
Connected(c) ==
    /\ c.conn # 0 /\ ~c.connClosed
    /\ c.chan # 0 /\ ~c.chanClosed
    /\ ~c.needs

Prepared(c) == c.qos = PrefetchCount /\ c.decl

\* C11 as amended: whenever a client is CONNECTED, between calls, when
\* _ensure_channel has completed and when a broker call is issued, its current
\* channel carries the configured prefetch limit and has the bound queue declared;
\* the prefetch limit is applied before every clearing of _needs_reinit.
C11_ConnectedIsPrepared ==
    /\ \A w \in Who : Connected(cl[w]) => Prepared(cl[w])
    /\ \A i \in At("ensured") \cup At("call") : Prepared(last.tr[i])
    /\ \A i \in At("cleared") : last.tr[i].qos = PrefetchCount

C11_Witness ==
    /\ last.op = "pop"
    /\ last.before.needs
    /\ ~last.before.connClosed
    /\ At("cleared") # {}
    /\ Connected(cl["r"])
    /\ last.ret = "Message"

\* C12: a push of an encodable payload that starts after the physical connection
\* was lost, with the broker reachable and nothing else failing during the call,
\* returns True without raising and adds the payload to the queue exactly once.
C12_PushSurvivesDrop ==
    (/\ last.op = "push"
     /\ Serializable(last.arg)
     /\ last.before.connDead
     /\ last.up
     /\ last.quiet) =>
        /\ last.exc = "none"
        /\ last.ret = "True"
        /\ outQ = Append(last.out, last.arg)

C12_Witness ==
    /\ last.op = "push"
    /\ Serializable(last.arg)
    /\ last.before.connDead /\ ~last.before.connClosed
    /\ last.up /\ last.quiet
    /\ Cardinality(At("call")) = 2
    /\ last.ret = "True"
    /\ outQ = Append(last.out, last.arg)

\* C11: every clearing of _needs_reinit comes after basic_qos and the declaration
\* of the bound queue on the new channel, and a CONNECTED client's channel carries
\* the prefetch limit.
C11_DeclaredBeforeCleared ==
    /\ \A w \in Who : Connected(cl[w]) => cl[w].qos = PrefetchCount
    /\ \A i \in At("cleared") : Prepared(last.tr[i])

\* C25: empty() never lets an exception reach its caller, and returns True
\* whenever its last attempt failed, whatever the class of the failure and
\* wherever it happened: first attempt, reconnect before the retry, or retry.
C25_EmptyTrueOnAnyError ==
    last.op = "empty" =>
        /\ last.exc = "none"
        /\ last.ret \in {"True", "False"}
        /\ (last.tr # <<>> /\ last.tr[Len(last.tr)].e = "failed") => last.ret = "True"

\* C26: ping() returns its record without raising; it reports error=false only
\* when the passive declare was the last thing the call did and it succeeded, on
\* a channel and a link that are alive; a client whose connection object is
\* still reported open while the broker is unreachable reports error=true.
C26_PingAsksTheBroker ==
    last.op = "ping" =>
        /\ last.exc = "none"
        /\ last.ret \in {"pong", "error"}
        /\ last.ret = "pong" =>
               /\ last.tr # <<>>
               /\ last.tr[Len(last.tr)].e = "call"
               /\ last.calls >= 1
               /\ Connected(cl["r"])
               /\ ~cl["r"].connDead
               /\ ~cl["r"].chanDead
        /\ (/\ ~last.before.connClosed
            /\ last.before.connDead
            /\ ~last.up
            /\ last.quiet) => last.ret = "error"

\* the connection object is open, the link is lost and the broker is down: ping
\* tried twice and reports the error
C26_Witness ==
    /\ last.op = "ping"
    /\ ~last.before.connClosed
    /\ last.before.connDead
    /\ ~last.up
    /\ last.quiet
    /\ At("retry") # {}
    /\ last.ret = "error"
    /\ cl["r"].needs

\* where _ensure_channel is entered in the kept call, and where it is left: the
\* next "ensured" (it returned) or "failed" (it raised)
EnsureEntries == At("try") \cup At("retry")

EnsureExit(i) ==
    CHOOSE j \in i+1..Len(last.tr) :
        /\ last.tr[j].e \in {"ensured", "failed"}
        /\ \A k \in i+1..j-1 : last.tr[k].e \notin {"ensured", "failed"}

\* C27: a call of _ensure_channel that finds the connection object present and
\* reported open leaves that object in place, and when the channel is missing,
\* reported closed or marked for reinit and the call returns, the channel is a
\* new one; the connection object changes only in a call that found it missing
\* or reported closed.
C27_ChannelOnlyReinit ==
    last.op \in RetryOps \cup {"declare_queue"} =>
        \A i \in EnsureEntries :
            /\ \E j \in i+1..Len(last.tr) : last.tr[j].e \in {"ensured", "failed"}
            /\ last.tr[EnsureExit(i)].conn # last.tr[i].conn =>
                   (last.tr[i].conn = 0 \/ last.tr[i].connClosed)
            /\ (/\ last.tr[i].conn # 0
                /\ ~last.tr[i].connClosed
                /\ last.tr[EnsureExit(i)].e = "ensured") =>
                   /\ last.tr[EnsureExit(i)].conn = last.tr[i].conn
                   /\ IF \/ last.tr[i].needs
                         \/ last.tr[i].chan = 0
                         \/ last.tr[i].chanClosed
                      THEN /\ last.tr[EnsureExit(i)].chan # last.tr[i].chan
                           /\ last.tr[EnsureExit(i)].chan >= last.tr[i].nid
                           /\ ~last.tr[EnsureExit(i)].needs
                      ELSE last.tr[EnsureExit(i)].chan = last.tr[i].chan

\* a client marked for reinit with its connection open and its channel closed:
\* the call got a new channel on the same connection
C27_Witness ==
    /\ last.op = "pop"
    /\ last.before.needs
    /\ ~last.before.connClosed
    /\ last.before.chanClosed
    /\ last.tr[EnsureExit(1)].e = "ensured"
    /\ last.tr[EnsureExit(1)].conn = last.before.conn
    /\ last.tr[EnsureExit(1)].chan = last.before.nid
    /\ last.exc = "none"
    /\ last.calls = 4

\* C5: a call of push, pop, ack, nack, empty or ping makes at most two attempts and
\* issues its broker operation at most once per attempt; the second attempt is made
\* exactly when the first one ended with a connectivity-class error.
C5_AtMostTwoAttempts ==
    last.op \in RetryOps =>
        /\ Cardinality(At("try")) <= 2
        /\ Cardinality(At("retry")) <= 1
        /\ Cardinality(At("call")) <= 1 + Cardinality(At("retry"))
        /\ \A i \in At("retry") :
               i > 1 /\ last.tr[i-1].e = "failed" /\ last.tr[i-1].exc = "amqp"
        /\ \A i \in At("failed") :
               (last.tr[i].exc = "amqp" /\ At("retry") \cap 1..i = {})
                   => i + 1 \in At("retry")

C5_Witness ==
    /\ last.op = "ack"
    /\ Cardinality(At("call")) = 2
    /\ last.ret = "True"

\* C6: after a first attempt that failed with a connectivity-class error, the
\* broker operation of the second attempt is issued on a channel created after
\* that failure, on the same connection or on one created after it; never on the
\* channel the client held when the first attempt failed.
C6_RetryOnFreshChannel ==
    last.op \in RetryOps =>
        \A i \in ConnectivityFailures : \A j \in At("call") :
            i < j =>
                /\ last.tr[j].chan >= last.tr[i].nid
                /\ last.tr[j].chan # last.tr[i].chan
                /\ last.tr[j].conn = last.tr[i].conn
                       \/ last.tr[j].conn >= last.tr[i].nid

C6_Witness ==
    /\ last.op = "push"
    /\ last.ret = "True"
    /\ \E i \in ConnectivityFailures : \E j \in At("call") :
           i < j /\ last.tr[j].conn = last.tr[i].conn

C8_UnserializablePushReturnsFalse ==
    (last.op = "push" /\ ~Serializable(last.arg)) =>
        /\ last.exc = "none"
        /\ last.ret = "False"
        /\ At("call") = {}

\* C9: pop returns a Message or None and never lets an exception reach its caller.
C9_PopNeverRaises ==
    last.op = "pop" =>
        /\ last.exc = "none"
        /\ last.ret \in {"Message", "None"}

\* the broker still holds, unsettled, the delivery the kept pop fetched
FetchedStillHeld ==
    \E j \in DOMAIN unacked :
        /\ unacked[j].who = "r"
        /\ unacked[j].tag = last.msg.tag
        /\ unacked[j].msg.id = last.msg.id

\* C29: a delivery that pop fetched with basic_get(auto_ack=False) is returned to
\* the caller as a Message with its delivery tag, or has been settled by the
\* client when pop is over; pop never drops a fetched delivery and leaves it
\* unsettled at the broker.
C29_FetchedIsReturnedOrSettled ==
    (last.op = "pop" /\ last.msg # NoMsg) =>
        \/ last.exc = "none" /\ last.ret = "Message"
        \/ ~FetchedStillHeld

\* C10: every broker call a public operation issues comes right after a completed
\* _ensure_channel of the same attempt, and is issued with the connection open,
\* the channel open and _needs_reinit false, as the client sees them.
C10_CallAfterEnsure ==
    last.op # "none" =>
        \A j \in At("call") :
            /\ j > 1
            /\ last.tr[j-1].e = "ensured"
            /\ ~last.tr[j].connClosed
            /\ ~last.tr[j].chanClosed
            /\ ~last.tr[j].needs

C10_Witness ==
    /\ last.op = "declare_queue"
    /\ last.before.connClosed
    /\ last.before.needs
    /\ At("call") # {}
    /\ last.ret = "True"

----------------------------------------------------------------------------
(* Claims about close(), checked under CloseSpec *)

\* C24: close() returns without raising whatever state the client and the link
\* are in; it tries to close the channel exactly when pika reports it open, then
\* the connection when pika reports it open, also after the channel's close
\* failed; it leaves both reported closed, and on a client whose connection and
\* channel are already reported closed it makes no broker call.
C24_CloseNeverRaises ==
    last.op = "close" =>
        /\ last.exc = "none"
        /\ last.ret = "None"
        /\ At("close_chan") # {} <=>
               (last.before.chan # 0 /\ ~last.before.chanClosed)
        /\ \A i \in At("close_conn") : \A j \in At("close_chan") : j < i
        /\ \A i \in At("failed") :
               (last.tr[i-1].e = "close_chan" /\ ~last.tr[i].connClosed)
                   => i + 1 \in At("close_conn")
        /\ last.calls = Cardinality(At("close_chan") \cup At("close_conn"))
        /\ cl["r"].connClosed /\ cl["r"].chanClosed
        /\ (last.before.connClosed /\ last.before.chanClosed) =>
               last.calls = 0 /\ last.tr = <<>>

\* the broker had closed the channel: its close failed and the connection was
\* closed all the same
C24_Witness ==
    /\ last.op = "close"
    /\ \E i \in At("failed") :
           /\ last.tr[i-1].e = "close_chan"
           /\ ~last.tr[i].connClosed
           /\ last.tr[i+1].e = "close_conn"
    /\ Len(last.tr) = 3
    /\ last.calls = 2
    /\ cl["r"].connClosed

\* the state close() leaves on a client whose link was alive: connection and
\* channel reported closed by the client's own doing, the link not lost
ClosedByClose(c) ==
    /\ c.conn # 0
    /\ c.connClosed
    /\ c.chanClosed
    /\ ~c.connDead

\* C31: close() is not terminal.  A public method called on a client whose
\* connection is reported closed, as close() leaves it, with the broker
\* reachable, opens a new connection and a new channel in its first
\* _ensure_channel, prepared with prefetch and queue, and goes on to its own
\* broker call: no attempt fails for the lost connection, nothing is retried, no
\* connectivity error leaves the method.
C31_CloseIsNotTerminal ==
    (/\ last.op \in RetryOps \cup {"declare_queue"}
     /\ last.before.conn # 0
     /\ last.before.connClosed
     /\ last.quiet /\ last.up /\ dns) =>
        /\ last.tr # <<>>
        /\ last.tr[1].e = "try"
        /\ \E j \in 2..Len(last.tr) : last.tr[j].e \in {"ensured", "failed"}
        /\ last.tr[EnsureExit(1)].e = "ensured"
        /\ last.tr[EnsureExit(1)].conn = last.before.nid
        /\ last.tr[EnsureExit(1)].conn # last.before.conn
        /\ ~last.tr[EnsureExit(1)].connClosed
        /\ last.tr[EnsureExit(1)].chan = last.before.nid + 1
        /\ last.tr[EnsureExit(1)].chan # last.before.chan
        /\ ~last.tr[EnsureExit(1)].chanClosed
        /\ last.tr[EnsureExit(1)].qos = PrefetchCount
        /\ last.tr[EnsureExit(1)].decl
        /\ ~last.tr[EnsureExit(1)].needs
        /\ ConnectivityFailures = {}
        /\ At("retry") = {}
        /\ last.exc \notin {"amqp", "os"}
        /\ last.op \in {"ack", "nack", "ping", "declare_queue"} =>
               last.ret # FailureValue(last.op)
        /\ ~cl["r"].connClosed

\* close() was called on a live client and the push that followed published
C31_Witness ==
    /\ last.op = "push"
    /\ ClosedByClose(last.before)
    /\ last.quiet /\ last.up /\ dns
    /\ last.tr[EnsureExit(1)].e = "ensured"
    /\ last.tr[EnsureExit(1)].conn = last.before.nid
    /\ last.ret = "True"
    /\ outQ # <<>>
    /\ outQ[Len(outQ)] = last.arg

----------------------------------------------------------------------------
(* Claims about get_relevant_class, checked under ClassSpec *)

\* positions of the list whose category the comparer finds similar, at a
\* distance strictly below 1.0
Qualifying ==
    {i \in DOMAIN cur.classes :
        /\ cur.comparer[cur.classes[i]].is_similar
        /\ cur.comparer[cur.classes[i]].metric < Sentinel}

MetricAt(i) == cur.comparer[cur.classes[i]].metric

\* C20: get_relevant_class returns the category of minimum distance among those
\* the comparer finds similar at a distance strictly below 1.0, the earliest in
\* list order when distances are equal, and None when no category qualifies.
C20_MinimumDistanceEarliest ==
    pc = "returned" =>
        IF Qualifying = {} THEN cur.ret = None
        ELSE \E i \in Qualifying :
                 /\ cur.ret = cur.classes[i]
                 /\ \A j \in Qualifying :
                        /\ MetricAt(i) <= MetricAt(j)
                        /\ MetricAt(j) = MetricAt(i) => i <= j

\* two different categories tie at the minimum, a nearer one is not similar, and
\* the earlier of the two is returned
C20_Witness ==
    /\ pc = "returned"
    /\ Len(cur.classes) = 3
    /\ Qualifying = {2, 3}
    /\ cur.classes[2] # cur.classes[3]
    /\ MetricAt(2) = MetricAt(3)
    /\ MetricAt(1) < MetricAt(2)
    /\ cur.ret = cur.classes[2]

====
